---- MODULE Spec2Model ----
(***************************************************************************)
(* A model of llmlink/model/Agent.py: the ReAct agent of ChainLink.        *)
(*                                                                         *)
(* Python strings are sequences of one-character strings, so that split,   *)
(* strip, splitlines, join, startswith and str.format are computed on the  *)
(* characters as the interpreter computes them.  Python sequences are      *)
(* 0-based and the sequences here 1-based: lines[idx] of the source is     *)
(* lines[idx] here with idx running from 1.                                *)
(***************************************************************************)
EXTENDS Integers, Sequences, FiniteSets, TLC

VARIABLES
    llm,            \* Agent._llm
    tools,          \* Agent._tools
    verbose,        \* Agent._verbose
    constructed,    \* whether Agent.__init__ has returned an object
    pc,             \* where run is
    question,       \* run's / create_prompt's argument
    prompt,         \* run's local prompt
    response,       \* run's local response
    action,         \* run's local action
    tool_response,  \* run's local tool_response
    llm_calls,      \* history: the prompts self.llm was called with
    tool_calls,     \* history: the tools that were invoked (by name or as objects) and their inputs
    responses,      \* history: the strings self.llm returned
    result,         \* what run returned or raised
    stdout,         \* what was printed
    call,           \* a direct call of a method: its name and its arguments
    returned        \* what that call returned or raised

vars ==
    <<llm, tools, verbose, constructed, pc, question, prompt, response, action, tool_response,
      llm_calls, tool_calls, responses, result, stdout, call, returned>>

agentVars == <<llm, tools, verbose, constructed>>

runVars ==
    <<pc, question, prompt, response, action, tool_response, llm_calls, tool_calls, responses,
      result>>

----------------------------------------------------------------------------
(* The module's string constants. *)

\* 'Answer the following question as best you can. You have access to the following tools:'
PREFIX ==
    <<"A","n","s","w","e","r"," ","t","h","e"," ","f","o","l","l","o","w","i","n","g"," ","q","u","e",
    "s","t","i","o","n"," ","a","s"," ","b","e","s","t"," ","y","o","u"," ","c","a","n","."," ","Y",
    "o","u"," ","h","a","v","e"," ","a","c","c","e","s","s"," ","t","o"," ","t","h","e"," ","f","o",
    "l","l","o","w","i","n","g"," ","t","o","o","l","s",":">>
\* 'Begin\n\nQuestion: {question}\n'
SUFFIX ==
    <<"B","e","g","i","n","\n","\n","Q","u","e","s","t","i","o","n",":"," ","{","q","u","e","s","t",
    "i","o","n","}","\n">>
\* 'Use the following format:\n\nQuestion: the input question you must answer\nThought: you should always think about what to do next\nAction: the action to take, should be one of {tool_names}\nAction Input: The input to the action\nObservation: the result of the action\n... (this Thought/Action/Action Input/Observation can repeat N times)\nThought: I now know the final answer\nFinal Answer: the final answer to the original input question'
INSTRUCTIONS ==
    <<"U","s","e"," ","t","h","e"," ","f","o","l","l","o","w","i","n","g"," ","f","o","r","m","a","t",
    ":","\n","\n","Q","u","e","s","t","i","o","n",":"," ","t","h","e"," ","i","n","p","u","t"," ",
    "q","u","e","s","t","i","o","n"," ","y","o","u"," ","m","u","s","t"," ","a","n","s","w","e","r",
    "\n","T","h","o","u","g","h","t",":"," ","y","o","u"," ","s","h","o","u","l","d"," ","a","l",
    "w","a","y","s"," ","t","h","i","n","k"," ","a","b","o","u","t"," ","w","h","a","t"," ","t","o",
    " ","d","o"," ","n","e","x","t","\n","A","c","t","i","o","n",":"," ","t","h","e"," ","a","c",
    "t","i","o","n"," ","t","o"," ","t","a","k","e",","," ","s","h","o","u","l","d"," ","b","e"," ",
    "o","n","e"," ","o","f"," ","{","t","o","o","l","_","n","a","m","e","s","}","\n","A","c","t",
    "i","o","n"," ","I","n","p","u","t",":"," ","T","h","e"," ","i","n","p","u","t"," ","t","o"," ",
    "t","h","e"," ","a","c","t","i","o","n","\n","O","b","s","e","r","v","a","t","i","o","n",":",
    " ","t","h","e"," ","r","e","s","u","l","t"," ","o","f"," ","t","h","e"," ","a","c","t","i","o",
    "n","\n",".",".","."," ","(","t","h","i","s"," ","T","h","o","u","g","h","t","/","A","c","t",
    "i","o","n","/","A","c","t","i","o","n"," ","I","n","p","u","t","/","O","b","s","e","r","v","a",
    "t","i","o","n"," ","c","a","n"," ","r","e","p","e","a","t"," ","N"," ","t","i","m","e","s",")",
    "\n","T","h","o","u","g","h","t",":"," ","I"," ","n","o","w"," ","k","n","o","w"," ","t","h",
    "e"," ","f","i","n","a","l"," ","a","n","s","w","e","r","\n","F","i","n","a","l"," ","A","n",
    "s","w","e","r",":"," ","t","h","e"," ","f","i","n","a","l"," ","a","n","s","w","e","r"," ","t",
    "o"," ","t","h","e"," ","o","r","i","g","i","n","a","l"," ","i","n","p","u","t"," ","q","u","e",
    "s","t","i","o","n">>
\* 'Action'
MARKER_ACTION == <<"A","c","t","i","o","n">>
\* 'Final Answer'
MARKER_FINAL_ANSWER == <<"F","i","n","a","l"," ","A","n","s","w","e","r">>
\* 'Action Input'
MARKER_ACTION_INPUT == <<"A","c","t","i","o","n"," ","I","n","p","u","t">>
\* 'Observation:'
OBSERVATION_COLON == <<"O","b","s","e","r","v","a","t","i","o","n",":">>
\* 'Warning: No parsable action detected. Be sure to '
WARNING ==
    <<"W","a","r","n","i","n","g",":"," ","N","o"," ","p","a","r","s","a","b","l","e"," ","a","c","t",
    "i","o","n"," ","d","e","t","e","c","t","e","d","."," ","B","e"," ","s","u","r","e"," ","t","o",
    " ">>
\* 'Possible problem parsing action input'
PARSE_PROBLEM ==
    <<"P","o","s","s","i","b","l","e"," ","p","r","o","b","l","e","m"," ","p","a","r","s","i","n","g",
    " ","a","c","t","i","o","n"," ","i","n","p","u","t">>
\* 'No tool with the name '
NO_TOOL_HEAD ==
    <<"N","o"," ","t","o","o","l"," ","w","i","t","h"," ","t","h","e"," ","n","a","m","e"," ">>
\* ' found'
NO_TOOL_TAIL == <<" ","f","o","u","n","d">>
\* 'Tool encountered an error: '
TOOL_ERROR ==
    <<"T","o","o","l"," ","e","n","c","o","u","n","t","e","r","e","d"," ","a","n"," ","e","r","r","o",
    "r",":"," ">>
\* 'Tool returned no results'
NO_RESULTS ==
    <<"T","o","o","l"," ","r","e","t","u","r","n","e","d"," ","n","o"," ","r","e","s","u","l","t","s">>
\* '\nAction: '
SEG_ACTION == <<"\n","A","c","t","i","o","n",":"," ">>
\* '\nAction Input: '
SEG_INPUT == <<"\n","A","c","t","i","o","n"," ","I","n","p","u","t",":"," ">>
\* '\nObservation: '
SEG_OBSERVATION == <<"\n","O","b","s","e","r","v","a","t","i","o","n",":"," ">>
\* '\nFinal Answer: '
SEG_FINAL == <<"\n","F","i","n","a","l"," ","A","n","s","w","e","r",":"," ">>

----------------------------------------------------------------------------
(* Python's string methods, on sequences of characters. *)

Min(S) == CHOOSE x \in S : \A y \in S : x <= y

Max(S) == CHOOSE x \in S : \A y \in S : x >= y

Range(s) == {s[k] : k \in 1..Len(s)}

\* The least index >= start of s that holds one of chars, 0 when there is none.
FindAny(s, chars, start) ==
    LET hits == {k \in start..Len(s) : s[k] \in chars}
    IN  IF hits = {} THEN 0 ELSE Min(hits)

\* str.split(sep) for a one-character sep: never empty, s itself when sep is absent.
RECURSIVE Split(_, _)
Split(s, sep) ==
    LET i == FindAny(s, {sep}, 1)
    IN  IF i = 0 THEN <<s>>
        ELSE <<SubSeq(s, 1, i - 1)>> \o Split(SubSeq(s, i + 1, Len(s)), sep)

\* sep.join(parts)
RECURSIVE Join(_, _)
Join(sep, parts) ==
    IF parts = <<>> THEN <<>>
    ELSE IF Len(parts) = 1 THEN parts[1]
    ELSE parts[1] \o sep \o Join(sep, Tail(parts))

\* The characters str.strip() removes (those of them the inputs here can hold).
Whitespace == {" ", "\t", "\n", "\r"}

\* str.strip()
Strip(s) ==
    LET keep == {k \in 1..Len(s) : s[k] \notin Whitespace}
    IN  IF keep = {} THEN <<>> ELSE SubSeq(s, Min(keep), Max(keep))

\* str.startswith(p)
StartsWith(s, p) == Len(p) <= Len(s) /\ SubSeq(s, 1, Len(p)) = p

\* The line boundaries of str.splitlines() (those of them the inputs here can hold).
LineBreaks == {"\n", "\r"}

\* str.splitlines(): "\r\n" is one boundary, and a final boundary opens no empty line.
RECURSIVE splitlines(_)
splitlines(s) ==
    LET i == FindAny(s, LineBreaks, 1)
    IN  IF i = 0 THEN (IF s = <<>> THEN <<>> ELSE <<s>>)
        ELSE LET skip == IF s[i] = "\r" /\ i < Len(s) /\ s[i + 1] = "\n" THEN 2 ELSE 1
             IN  <<SubSeq(s, 1, i - 1)>> \o splitlines(SubSeq(s, i + skip, Len(s)))

----------------------------------------------------------------------------
(* Values and outcomes. *)

\* A name that is bound to nothing yet.
Unset == [kind |-> "unset"]

\* The outcome of a call that raises exc.
Raise(exc) == [kind |-> "raise", exc |-> exc]

\* The outcome of a call that returns the string s.
Str(s) == [kind |-> "str", value |-> s]

----------------------------------------------------------------------------
(* Agent.parse_output *)

\* A type_of_response that is not stripped: lines[idx].split(':')[0]
type_of_response_unstripped(line) == Split(line, ":")[1]

\* lines[idx].split(':')[0].strip()
type_of_response(line) == Strip(Split(line, ":")[1])

\* ':'.join(lines[idx].split(':')[1:]).strip()
tool_name_of(line) == Strip(Join(<<":">>, Tail(Split(line, ":"))))

\* A scan that stops at no line: every line after the Action Input line is appended.
RECURSIVE scan_tool_input_to_end(_, _, _)
scan_tool_input_to_end(lines, action_idx, tool_input) ==
    IF action_idx > Len(lines) THEN tool_input
    ELSE scan_tool_input_to_end(lines, action_idx + 1,
                                tool_input \o <<"\n">> \o lines[action_idx])

\* for action_idx in range(idx + 2, len(lines)): append the line unless it starts
\* with 'Observation:', which ends the loop.
RECURSIVE scan_tool_input(_, _, _)
scan_tool_input(lines, action_idx, tool_input) ==
    IF action_idx > Len(lines) THEN tool_input
    ELSE IF StartsWith(lines[action_idx], OBSERVATION_COLON) THEN tool_input
    ELSE scan_tool_input(lines, action_idx + 1, tool_input \o <<"\n">> \o lines[action_idx])

\* The thought with the line at idx in it: '\n'.join(lines[:idx + 1])
thought_of_through(lines, idx) == Join(<<"\n">>, SubSeq(lines, 1, idx))

\* '\n'.join(lines[:idx])
thought_of(lines, idx) == Join(<<"\n">>, SubSeq(lines, 1, idx - 1))

\* The 'Action' branch.  lines[idx + 1] raises IndexError when the Action line is the
\* last one, and .split(':')[1] raises IndexError when the next line holds no colon.
parse_action(lines, idx) ==
    IF idx + 1 > Len(lines) THEN Raise("IndexError")
    ELSE LET next_parts == Split(lines[idx + 1], ":")
         IN  IF Len(next_parts) < 2 THEN Raise("IndexError")
             ELSE [kind |-> "dict",
                   Action |-> "tool",
                   Tool |-> tool_name_of(lines[idx]),
                   Input |-> scan_tool_input(lines, idx + 2, Strip(next_parts[2])),
                   Thought |-> thought_of(lines, idx)]

\* An answer record tagged with a value run does not test for: 'Action': 'Answer'
parse_answer_capitalised(lines, idx) ==
    [kind |-> "dict",
     Action |-> "Answer",
     Answer |-> Strip(Split(lines[idx], ":")[2]),
     Thought |-> thought_of(lines, idx)]

\* The 'Final Answer' branch.
parse_answer(lines, idx) ==
    [kind |-> "dict",
     Action |-> "answer",
     Answer |-> Strip(Split(lines[idx], ":")[2]),
     Thought |-> thought_of(lines, idx)]

\* An unparsed value that is a dict, which run's branches both skip.
unparsed_as_dict(output) ==
    [kind |-> "dict", Action |-> "unparsed", Text |-> output \o <<"\n">> \o WARNING]

\* The value returned when the loop over the lines ends.
unparsed(output) == Str(output \o <<"\n">> \o WARNING)

\* for idx in range(len(lines)): ...
RECURSIVE parse_lines(_, _, _)
parse_lines(output, lines, idx) ==
    IF idx > Len(lines) THEN unparsed(output)
    ELSE IF ":" \in Range(lines[idx])
         THEN LET marker == type_of_response(lines[idx])
              IN  IF marker = MARKER_ACTION THEN parse_action(lines, idx)
                  ELSE IF marker = MARKER_FINAL_ANSWER THEN parse_answer(lines, idx)
                  ELSE parse_lines(output, lines, idx + 1)
         ELSE parse_lines(output, lines, idx + 1)

parse_output(output) == parse_lines(output, splitlines(output), 1)

\* What parse_output prints: the warning of line 142, printed when the line after the
\* Action line exists and does not start with 'Action Input' before its first colon.
RECURSIVE parse_prints_from(_, _)
parse_prints_from(lines, idx) ==
    IF idx > Len(lines) THEN <<>>
    ELSE IF ":" \in Range(lines[idx])
         THEN LET marker == type_of_response(lines[idx])
              IN  IF marker = MARKER_ACTION
                  THEN IF idx + 1 <= Len(lines)
                          /\ Strip(Split(lines[idx + 1], ":")[1]) # MARKER_ACTION_INPUT
                       THEN <<PARSE_PROBLEM>>
                       ELSE <<>>
                  ELSE IF marker = MARKER_FINAL_ANSWER THEN <<>>
                  ELSE parse_prints_from(lines, idx + 1)
         ELSE parse_prints_from(lines, idx + 1)

parse_prints(output) == parse_prints_from(splitlines(output), 1)

----------------------------------------------------------------------------
(* The inputs: the lines model outputs are made of. *)

\* 'Thought: go'
L_Thought == <<"T","h","o","u","g","h","t",":"," ","g","o">>
\* 'Action: Search'
L_Action == <<"A","c","t","i","o","n",":"," ","S","e","a","r","c","h">>
\* 'Action: Calc'
L_ActionCalc == <<"A","c","t","i","o","n",":"," ","C","a","l","c">>
\* 'Action: Quiet'
L_ActionQuiet == <<"A","c","t","i","o","n",":"," ","Q","u","i","e","t">>
\* 'Action: Nope'
L_ActionNope == <<"A","c","t","i","o","n",":"," ","N","o","p","e">>
\* ' Action : a:b '
L_ActionPadded == <<" ","A","c","t","i","o","n"," ",":"," ","a",":","b"," ">>
\* 'Action Input: q'
L_Input == <<"A","c","t","i","o","n"," ","I","n","p","u","t",":"," ","q">>
\* 'Action Input: 1:2'
L_InputColon == <<"A","c","t","i","o","n"," ","I","n","p","u","t",":"," ","1",":","2">>
\* 'Input q'
L_InputMissing == <<"I","n","p","u","t"," ","q">>
\* 'Observation: o'
L_Observation == <<"O","b","s","e","r","v","a","t","i","o","n",":"," ","o">>
\* ' Observation: o'
L_ObservationPadded == <<" ","O","b","s","e","r","v","a","t","i","o","n",":"," ","o">>
\* 'Final Answer: Paris'
L_Final == <<"F","i","n","a","l"," ","A","n","s","w","e","r",":"," ","P","a","r","i","s">>
\* 'Final Answer: 3:4'
L_FinalColon == <<"F","i","n","a","l"," ","A","n","s","w","e","r",":"," ","3",":","4">>
\* 'Final Answer:'
L_FinalEmpty == <<"F","i","n","a","l"," ","A","n","s","w","e","r",":">>
\* 'plain'
L_Plain == <<"p","l","a","i","n">>
\* ''
L_Empty == <<>>
\* 'Action'
L_ActionNoColon == <<"A","c","t","i","o","n">>
\* 'ok\r'
L_CarriageReturn == <<"o","k","\r">>

\* The lines an output given to parse_output is made of.
LineSet ==
    {L_Thought, L_Action, L_ActionPadded, L_Input, L_InputColon, L_InputMissing, L_Observation,
     L_ObservationPadded, L_Final, L_FinalColon, L_FinalEmpty, L_Plain, L_Empty, L_ActionNoColon,
     L_CarriageReturn}

\* The most lines of an output.
MaxLines == 3

SeqsUpTo(S, n) == UNION {[1..k -> S] : k \in 0..n}

\* The outputs given to parse_output: up to MaxLines lines joined by newlines.
Outputs == {Join(<<"\n">>, ls) : ls \in SeqsUpTo(LineSet, MaxLines)}

----------------------------------------------------------------------------
(* Python values: an object is a record that carries its class in cls. *)

Tool(name, description, func) ==
    [cls |-> "Tool", name |-> name, description |-> description, func |-> func]

PyList(items) == [cls |-> "list", items |-> items]

PyTuple(items) == [cls |-> "tuple", items |-> items]

PyStr(s) == [cls |-> "str", items |-> s]

PyNone == [cls |-> "NoneType", repr |-> "None"]

PyBool(b) == [cls |-> "bool", repr |-> IF b THEN "True" ELSE "False"]

PyInt(repr) == [cls |-> "int", repr |-> repr]

\* isinstance(value, cls), for the classes here, none of which subclasses another.
isinstance(value, cls) == value.cls = cls

\* bool(value) of a bool: what `if self.verbose:` tests.
truthy(value) == value.repr = "True"

\* The outcome of a setter that stores value.
Stored(value) == [kind |-> "stored", value |-> value]

\* The outcome of a call that returns None.
ReturnedNone == [kind |-> "none"]

\* A direct call of a method of the Agent.
Call(method, args) == [method |-> method, args |-> args]

----------------------------------------------------------------------------
(* Agent.__init__ and the tools / verbose setters *)

\* A tools setter that takes a list holding any Tool: any(...) for all(...)
tools_setter_any(value) ==
    IF isinstance(value, "list")
    THEN IF value.items = <<>> \/ \E k \in 1..Len(value.items) : isinstance(value.items[k], "Tool")
         THEN Stored(value)
         ELSE Raise("TypeError")
    ELSE IF isinstance(value, "Tool") THEN Stored(PyList(<<value>>))
    ELSE Raise("TypeError")

\* @tools.setter
tools_setter(value) ==
    IF isinstance(value, "list")
    THEN IF \A k \in 1..Len(value.items) : isinstance(value.items[k], "Tool")
         THEN Stored(value)
         ELSE Raise("TypeError")
    ELSE IF isinstance(value, "Tool") THEN Stored(PyList(<<value>>))
    ELSE Raise("TypeError")

\* @verbose.setter
verbose_setter(value) ==
    IF ~isinstance(value, "bool") THEN Raise("TypeError") ELSE Stored(value)

----------------------------------------------------------------------------
(* Agent.tool_descriptions, tool_dict, tool_names, create_prompt *)

\* 'question'
K_question == <<"q","u","e","s","t","i","o","n">>
\* 'tool_names'
K_tool_names == <<"t","o","o","l","_","n","a","m","e","s">>

\* '\n\n'.join([f'{tool.name}: {tool.description}' for tool in self.tools])
tool_descriptions(ts) ==
    Join(<<"\n", "\n">>, [k \in 1..Len(ts) |-> ts[k].name \o <<":", " ">> \o ts[k].description])

\* A dictionary keyed by the description: {tool.description: tool for tool in self.tools}
tool_dict_by_description(ts) ==
    [n \in {ts[k].description : k \in 1..Len(ts)} |->
        ts[Max({k \in 1..Len(ts) : ts[k].description = n})]]

\* {tool.name: tool for tool in self.tools}: a later tool replaces an earlier one of
\* the same name.
tool_dict(ts) ==
    [n \in {ts[k].name : k \in 1..Len(ts)} |-> ts[Max({k \in 1..Len(ts) : ts[k].name = n})]]

\* [tool.name for tool in self.tools]
tool_names(ts) == [k \in 1..Len(ts) |-> ts[k].name]

\* str() of a list of strings, as str.format renders tool_names (for names that hold
\* no quote, backslash or unprintable character, as all names here).
list_repr(names) ==
    <<"[">> \o Join(<<",", " ">>, [k \in 1..Len(names) |-> <<"'">> \o names[k] \o <<"'">>])
        \o <<"]">>

Digits == {"0", "1", "2", "3", "4", "5", "6", "7", "8", "9"}

\* str.format(**kwargs) from index i on, acc being what is rendered so far.  '{{' and
\* '}}' render one brace; a single '}' and an unclosed '{' raise ValueError; '{name}'
\* renders kwargs[name] and raises KeyError for an unknown name, and IndexError for an
\* empty or numeric one (no positional argument is given).  Fields are rendered left
\* to right, so the first error met is the one raised.  (Fields with a conversion, a
\* format spec, an attribute or an index do not occur in the strings formatted here.)
RECURSIVE format_from(_, _, _, _)
format_from(s, i, acc, kwargs) ==
    LET j == FindAny(s, {"{", "}"}, i)
    IN  IF j = 0 THEN Str(acc \o SubSeq(s, i, Len(s)))
        ELSE LET literal == acc \o SubSeq(s, i, j - 1)
             IN  IF j < Len(s) /\ s[j + 1] = s[j]
                 THEN format_from(s, j + 2, literal \o <<s[j]>>, kwargs)
                 ELSE IF s[j] = "}" THEN Raise("ValueError")
                 ELSE LET e == FindAny(s, {"{", "}"}, j + 1)
                      IN  IF e = 0 \/ s[e] = "{" THEN Raise("ValueError")
                          ELSE LET field == SubSeq(s, j + 1, e - 1)
                               IN  IF field \in DOMAIN kwargs
                                   THEN format_from(s, e + 1, literal \o kwargs[field], kwargs)
                                   ELSE IF Range(field) \subseteq Digits
                                   THEN Raise("IndexError")
                                   ELSE Raise("KeyError")

format(s, kwargs) == format_from(s, 1, <<>>, kwargs)

\* f'{prefix}\n\n{self.tool_descriptions}\n\n{instructions}\n\n{suffix}'
prompt_template(ts) ==
    PREFIX \o <<"\n", "\n">> \o tool_descriptions(ts) \o <<"\n", "\n">> \o INSTRUCTIONS
        \o <<"\n", "\n">> \o SUFFIX

\* A prompt kept on the Agent: a call of run after the first goes on from the prompt the
\* call before it ended with.
create_prompt_kept(ts, q) ==
    IF returned # Unset /\ returned.kind = "run" /\ returned.prompt # Unset
    THEN Str(returned.prompt)
    ELSE format(prompt_template(ts),
                (K_question :> q) @@ (K_tool_names :> list_repr(tool_names(ts))))

\* create_prompt(question) with the default prefix, suffix and instructions.
create_prompt(ts, q) ==
    format(prompt_template(ts), (K_question :> q) @@ (K_tool_names :> list_repr(tool_names(ts))))

----------------------------------------------------------------------------
(* Agent.run_tool *)

\* A Tool's callable, which is outside the repository: func says what it does with its
\* input.  It returns a string or raises an Exception with a message.
\* 'boom'
M_Boom == <<"b","o","o","m">>
\* '42'
V_Fixed == <<"4","2">>

RaiseMsg(exc, msg) == [kind |-> "raise", exc |-> exc, msg |-> msg]

invoke(tool, tool_input) ==
    CASE tool.func = "echo" -> Str(tool_input)
      [] tool.func = "empty" -> Str(<<>>)
      [] tool.func = "fixed" -> Str(V_Fixed)
      [] tool.func = "raise" -> RaiseMsg("Exception", M_Boom)

\* Whether run_tool invokes a tool: self.tool_dict.get(tool_name) is a Tool, which is
\* truthy.
run_tool_invokes(ts, tool_name) == tool_name \in DOMAIN tool_dict(ts)

\* A lookup that raises for a missing name: self.tool_dict[tool_name]
no_tool_found_raises(ts, tool_name) == Raise("KeyError")

\* f'No tool with the name {tool_name} found'
no_tool_found(ts, tool_name) == Str(NO_TOOL_HEAD \o tool_name \o NO_TOOL_TAIL)

\* A call of the tool outside any try: the exception goes on to the caller.
tool_failed_propagates(e) == e

\* except Exception as e: return(f'Tool encountered an error: {e}')
tool_failed(e) == Str(TOOL_ERROR \o e.msg)

run_tool(ts, tool_name, tool_input) ==
    IF run_tool_invokes(ts, tool_name)
    THEN LET outcome == invoke(tool_dict(ts)[tool_name], tool_input)
         IN  IF outcome.kind = "raise" THEN tool_failed(outcome) ELSE outcome
    ELSE no_tool_found(ts, tool_name)

----------------------------------------------------------------------------
(* The inputs: tools, questions and model responses. *)

\* 'Search'
N_Search == <<"S","e","a","r","c","h">>
\* 'Calc'
N_Calc == <<"C","a","l","c">>
\* 'Quiet'
N_Quiet == <<"Q","u","i","e","t">>
\* 'Fmt'
N_Fmt == <<"F","m","t">>
\* 'find facts'
D_Search == <<"f","i","n","d"," ","f","a","c","t","s">>
\* 'do math'
D_Calc == <<"d","o"," ","m","a","t","h">>
\* 'says nothing'
D_Quiet == <<"s","a","y","s"," ","n","o","t","h","i","n","g">>
\* 'other'
D_Other == <<"o","t","h","e","r">>
\* 'fills {}'
D_Positional == <<"f","i","l","l","s"," ","{","}">>
\* 'uses {x}'
D_Unknown == <<"u","s","e","s"," ","{","x","}">>
\* 'set {{a}}'
D_Doubled == <<"s","e","t"," ","{","{","a","}","}">>
\* 'echo {question}'
D_Question == <<"e","c","h","o"," ","{","q","u","e","s","t","i","o","n","}">>
\* 'ends }'
D_Single == <<"e","n","d","s"," ","}">>
\* 'hi?'
Q_Plain == <<"h","i","?">>
\* 'a {b}'
Q_Braces == <<"a"," ","{","b","}">>

SearchTool == Tool(N_Search, D_Search, "echo")

CalcTool == Tool(N_Calc, D_Calc, "raise")

QuietTool == Tool(N_Quiet, D_Quiet, "empty")

\* A second tool named Search.
OtherSearchTool == Tool(N_Search, D_Other, "fixed")

\* Tools whose description holds braces.
PositionalTool == Tool(N_Fmt, D_Positional, "echo")

UnknownFieldTool == Tool(N_Fmt, D_Unknown, "echo")

DoubledBraceTool == Tool(N_Fmt, D_Doubled, "echo")

QuestionFieldTool == Tool(N_Fmt, D_Question, "echo")

SingleBraceTool == Tool(N_Fmt, D_Single, "echo")

ToolUniverse ==
    {SearchTool, CalcTool, QuietTool, OtherSearchTool, PositionalTool, UnknownFieldTool,
     DoubledBraceTool, QuestionFieldTool, SingleBraceTool}

\* The most tools of a tool list.
MaxTools == 2

ToolLists == SeqsUpTo(ToolUniverse, MaxTools)

Questions == {Q_Plain, Q_Braces}

\* The tool lists of the agents that run.
RunToolLists ==
    {<<SearchTool, CalcTool>>, <<QuietTool, OtherSearchTool>>, <<UnknownFieldTool>>, <<>>}

\* The strings the model returns.
R_ToolSearch == Join(<<"\n">>, <<L_Thought, L_Action, L_Input>>)

R_ToolCalc == Join(<<"\n">>, <<L_ActionCalc, L_InputColon, L_Plain, L_Observation>>)

R_ToolQuiet == Join(<<"\n">>, <<L_ActionQuiet, L_Input>>)

R_ToolNope == Join(<<"\n">>, <<L_Plain, L_ActionNope, L_Input>>)

\* A response with 'Observation:' lines before and directly after its Action line.
R_ToolObserved == Join(<<"\n">>, <<L_Observation, L_Action, L_Observation, L_Plain>>)

R_ActionLast == Join(<<"\n">>, <<L_Thought, L_Action>>)

R_Final == Join(<<"\n">>, <<L_Thought, L_Final>>)

R_FinalColon == L_FinalColon

R_Plain == L_Plain

Responses ==
    {R_ToolSearch, R_ToolCalc, R_ToolQuiet, R_ToolNope, R_ToolObserved, R_ActionLast, R_Final,
     R_FinalColon, R_Plain}

\* The most calls of the model in one run.
MaxCalls == 3

----------------------------------------------------------------------------
(* Agent.run *)

\* 'INITIAL PROMPT:'
P_INITIAL_PROMPT == <<"I","N","I","T","I","A","L"," ","P","R","O","M","P","T",":">>
\* 'MODEL RESPONSE:'
P_MODEL_RESPONSE == <<"M","O","D","E","L"," ","R","E","S","P","O","N","S","E",":">>
\* 'PARSED ACTION:'
P_PARSED_ACTION == <<"P","A","R","S","E","D"," ","A","C","T","I","O","N",":">>
\* 'NEW PROMPT:'
P_NEW_PROMPT == <<"N","E","W"," ","P","R","O","M","P","T",":">>
\* 'FINAL TEXT:'
P_FINAL_TEXT == <<"F","I","N","A","L"," ","T","E","X","T",":">>

\* print(label); print('\n'); print(value); print('\n\n') when self.verbose.
verbose_print(label, value) ==
    IF truthy(verbose)
    THEN <<Str(label), Str(<<"\n">>), value, Str(<<"\n", "\n">>)>>
    ELSE <<>>

\* The final print, which has no trailing print('\n\n').
verbose_print_final(label, value) ==
    IF truthy(verbose) THEN <<Str(label), Str(<<"\n">>), value>> ELSE <<>>

\* f'{action["Thought"]}\nAction: {action["Tool"]}\nAction Input: {action["Input"]}\nObservation: {tool_response}\n'
tool_segment(a, observation) ==
    a.Thought \o SEG_ACTION \o a.Tool \o SEG_INPUT \o a.Input \o SEG_OBSERVATION \o observation
        \o <<"\n">>

\* An answer segment that ends with a newline, as the tool segment does.
answer_segment_newline(a) == a.Thought \o SEG_FINAL \o a.Answer \o <<"\n">>

\* f'{action["Thought"]}\nFinal Answer: {action["Answer"]}'
answer_segment(a) == a.Thought \o SEG_FINAL \o a.Answer

\* {'response': action['Answer'], 'full_text': prompt}
answer_result(a, full_text) ==
    [kind |-> "return", response |-> a.Answer, full_text |-> full_text]

\* The test for the empty string made only when verbose: the two lines moved into the
\* `if self.verbose:` block that follows them.
observation_of_if_verbose(text) == IF truthy(verbose) /\ text = <<>> THEN NO_RESULTS ELSE text

\* The tool response taken as it is, with no test for the empty string.
observation_of_any(text) == text

\* if tool_response == '': tool_response = 'Tool returned no results'
observation_of(text) == IF text = <<>> THEN NO_RESULTS ELSE text

\* obj[key] for the two shapes parse_output returns: a dict holds the key; a str
\* indexed by a str raises TypeError (string indices must be integers).
getitem(obj, key) ==
    IF obj.kind = "dict" THEN [kind |-> "value", value |-> obj[key]] ELSE Raise("TypeError")

\* run(question) is called.
Run(q) ==
    /\ pc = "IDLE"
    /\ pc' = "BUILDING_PROMPT"
    /\ question' = q
    /\ UNCHANGED <<agentVars, prompt, response, action, tool_response, llm_calls, tool_calls,
                   responses, result, stdout, call, returned>>

\* An assignment in place of the append: prompt = segment
prompt_replaced(p, segment) == segment

\* prompt += segment
prompt_plus(p, segment) == p \o segment

\* prompt = self.create_prompt(question), and the first verbose print.
BuildPrompt ==
    /\ pc = "BUILDING_PROMPT"
    /\ LET built == create_prompt(tools.items, question)
       IN  IF built.kind = "raise"
           THEN /\ pc' = "RAISED"
                /\ result' = built
                /\ UNCHANGED <<prompt, stdout>>
           ELSE /\ pc' = "AWAITING_MODEL"
                /\ prompt' = built.value
                /\ stdout' = stdout \o verbose_print(P_INITIAL_PROMPT, built)
                /\ UNCHANGED result
    /\ UNCHANGED <<agentVars, question, response, action, tool_response, llm_calls, tool_calls,
                   responses, call, returned>>

\* response = self.llm(prompt): the model returns r.
ModelReturns(r) ==
    /\ pc = "AWAITING_MODEL"
    /\ Len(llm_calls) < MaxCalls
    /\ llm_calls' = Append(llm_calls, prompt)
    /\ responses' = Append(responses, r)
    /\ response' = r
    /\ stdout' = stdout \o verbose_print(P_MODEL_RESPONSE, Str(r))
    /\ pc' = "PARSING"
    /\ UNCHANGED <<agentVars, question, prompt, action, tool_response, tool_calls, result,
                   call, returned>>

\* action = self.parse_output(response), and the branch on action['Action']; the
\* answer branch returns.
Parse ==
    /\ pc = "PARSING"
    /\ LET a == parse_output(response)
           printed == stdout \o parse_prints(response)
       IN  IF a.kind = "raise"
           THEN /\ pc' = "RAISED"
                /\ result' = a
                /\ stdout' = printed
                /\ UNCHANGED <<action, prompt>>
           ELSE LET kind == getitem(a, "Action")
                    shown == printed \o verbose_print(P_PARSED_ACTION, a)
                IN  /\ action' = a
                    /\ IF kind.kind = "raise"
                       THEN /\ pc' = "RAISED"
                            /\ result' = kind
                            /\ stdout' = shown
                            /\ UNCHANGED prompt
                       ELSE IF kind.value = "tool"
                       THEN /\ pc' = "EXECUTING_TOOL"
                            /\ stdout' = shown
                            /\ UNCHANGED <<prompt, result>>
                       ELSE IF kind.value = "answer"
                       THEN /\ pc' = "DONE"
                            /\ prompt' = prompt_plus(prompt, answer_segment(a))
                            /\ result' = answer_result(a, prompt')
                            /\ stdout' = shown \o verbose_print_final(P_FINAL_TEXT, Str(prompt'))
                       ELSE /\ pc' = "AWAITING_MODEL"
                            /\ stdout' = shown
                            /\ UNCHANGED <<prompt, result>>
    /\ UNCHANGED <<agentVars, question, response, tool_response, llm_calls, tool_calls,
                   responses, call, returned>>

\* tool_response = self.run_tool(action['Tool'], action['Input']) and the append to the
\* prompt.
ExecuteTool ==
    /\ pc = "EXECUTING_TOOL"
    /\ LET outcome == run_tool(tools.items, action.Tool, action.Input)
       IN  /\ tool_calls' =
                IF run_tool_invokes(tools.items, action.Tool)
                THEN Append(tool_calls, [name |-> action.Tool, input |-> action.Input])
                ELSE tool_calls
           /\ IF outcome.kind = "raise"
              THEN /\ pc' = "RAISED"
                   /\ result' = outcome
                   /\ UNCHANGED <<tool_response, prompt, stdout>>
              ELSE /\ pc' = "AWAITING_MODEL"
                   /\ tool_response' = observation_of(outcome.value)
                   /\ prompt' = prompt_plus(prompt, tool_segment(action, tool_response'))
                   /\ stdout' = stdout \o verbose_print(P_NEW_PROMPT, Str(prompt'))
                   /\ UNCHANGED result
    /\ UNCHANGED <<agentVars, question, response, action, llm_calls, responses, call, returned>>

Init ==
    /\ llm = "llm"
    /\ tools \in {PyList(ts) : ts \in RunToolLists}
    /\ verbose \in {PyBool(TRUE), PyBool(FALSE)}
    /\ constructed = TRUE
    /\ pc = "IDLE"
    /\ question = Unset
    /\ prompt = Unset
    /\ response = Unset
    /\ action = Unset
    /\ tool_response = Unset
    /\ llm_calls = <<>>
    /\ tool_calls = <<>>
    /\ responses = <<>>
    /\ result = Unset
    /\ stdout = <<>>
    /\ call = Unset
    /\ returned = Unset

Next ==
    \/ \E q \in Questions : Run(q)
    \/ BuildPrompt
    \/ \E r \in Responses : ModelReturns(r)
    \/ Parse
    \/ ExecuteTool

Spec == Init /\ [][Next]_vars

----------------------------------------------------------------------------
(* Two runs of one Agent, one after the other, with the same question and a model that
   is a function of its prompt. *)

\* What a call of run did, kept by its caller once the call is over.
RunRecord ==
    [kind |-> "run",
     verbose |-> verbose,
     question |-> question,
     prompt |-> prompt,
     llm_calls |-> llm_calls,
     responses |-> responses,
     tool_calls |-> tool_calls,
     stopped_in |-> pc,
     result |-> result]

\* The first call of run is over: it returned (lines 227-230) or raised, and its locals
\* are gone.
RunOver ==
    /\ pc \in {"DONE", "RAISED"}
    /\ returned = Unset
    /\ call' = Call("run", <<question>>)
    /\ returned' = RunRecord
    /\ pc' = "IDLE"
    /\ question' = Unset
    /\ prompt' = Unset
    /\ response' = Unset
    /\ action' = Unset
    /\ tool_response' = Unset
    /\ llm_calls' = <<>>
    /\ tool_calls' = <<>>
    /\ responses' = <<>>
    /\ result' = Unset
    /\ UNCHANGED <<agentVars, stdout>>

\* agent.verbose = not agent.verbose, between the two runs.
SetVerboseBetweenRuns ==
    /\ pc = "IDLE"
    /\ returned # Unset
    /\ verbose = returned.verbose
    /\ verbose' = verbose_setter(PyBool(~truthy(verbose))).value
    /\ UNCHANGED <<llm, tools, constructed, runVars, stdout, call, returned>>

\* agent.run(question); the second call has the question of the first.
RunOrRunAgain(q) ==
    /\ returned # Unset => q = returned.question
    /\ Run(q)

\* The strings the model returns in the two runs: tool-calls of a tool that returns its
\* input, of one that raises and of one that returns the empty string, an answer, a
\* response with no marker and one with an Action line and no input line.
TwoRunResponses == {R_ToolSearch, R_ToolCalc, R_ToolQuiet, R_Final, R_Plain, R_ActionLast}

\* The model is a function of its prompt: for a prompt of the first run it returns what
\* it returned then.
DeterministicModelReturns(r) ==
    /\ returned # Unset =>
            \A k \in 1..Len(returned.llm_calls) :
                returned.llm_calls[k] = prompt => r = returned.responses[k]
    /\ ModelReturns(r)

NextTwoRuns ==
    \/ \E q \in Questions : RunOrRunAgain(q)
    \/ BuildPrompt
    \/ \E r \in TwoRunResponses : DeterministicModelReturns(r)
    \/ Parse
    \/ ExecuteTool
    \/ RunOver
    \/ SetVerboseBetweenRuns

SpecTwoRuns == Init /\ [][NextTwoRuns]_vars

----------------------------------------------------------------------------
(* parse_output called on its own. *)

InitParse ==
    /\ llm = "llm"
    /\ tools = PyList(<<SearchTool>>)
    /\ verbose = PyBool(FALSE)
    /\ constructed = TRUE
    /\ pc = "IDLE"
    /\ question = Unset
    /\ prompt = Unset
    /\ response = Unset
    /\ action = Unset
    /\ tool_response = Unset
    /\ llm_calls = <<>>
    /\ tool_calls = <<>>
    /\ responses = <<>>
    /\ result = Unset
    /\ stdout = <<>>
    /\ call \in {Call("parse_output", <<o>>) : o \in Outputs}
    /\ returned = Unset

\* self.parse_output(output)
ParseOutput ==
    /\ call.method = "parse_output"
    /\ returned = Unset
    /\ returned' = parse_output(call.args[1])
    /\ stdout' = stdout \o parse_prints(call.args[1])
    /\ UNCHANGED <<agentVars, runVars, call>>

NextParse == ParseOutput

SpecParse == InitParse /\ [][NextParse]_vars

----------------------------------------------------------------------------
(* create_prompt called on its own. *)

InitPrompt ==
    /\ llm = "llm"
    /\ tools \in {PyList(ts) : ts \in ToolLists}
    /\ verbose = PyBool(FALSE)
    /\ constructed = TRUE
    /\ pc = "IDLE"
    /\ question = Unset
    /\ prompt = Unset
    /\ response = Unset
    /\ action = Unset
    /\ tool_response = Unset
    /\ llm_calls = <<>>
    /\ tool_calls = <<>>
    /\ responses = <<>>
    /\ result = Unset
    /\ stdout = <<>>
    /\ call \in {Call("create_prompt", <<q>>) : q \in Questions}
    /\ returned = Unset

\* self.create_prompt(question)
CreatePrompt ==
    /\ call.method = "create_prompt"
    /\ returned = Unset
    /\ returned' = create_prompt(tools.items, call.args[1])
    /\ UNCHANGED <<agentVars, runVars, stdout, call>>

NextPrompt == CreatePrompt

SpecPrompt == InitPrompt /\ [][NextPrompt]_vars

----------------------------------------------------------------------------
(* tool_dict, tool_names and run_tool called on their own. *)

\* The value of a property that was read.
Value(v) == [kind |-> "value", value |-> v]

\* The names run_tool is called with: those of the tools and one no tool has.
RunToolNames == {N_Search, N_Calc, N_Quiet, N_Fmt, <<"N","o","p","e">>}

RunToolInputs == {<<"q">>, <<>>}

InitTool ==
    /\ llm = "llm"
    /\ tools \in {PyList(ts) : ts \in ToolLists}
    /\ verbose = PyBool(FALSE)
    /\ constructed = TRUE
    /\ pc = "IDLE"
    /\ question = Unset
    /\ prompt = Unset
    /\ response = Unset
    /\ action = Unset
    /\ tool_response = Unset
    /\ llm_calls = <<>>
    /\ tool_calls = <<>>
    /\ responses = <<>>
    /\ result = Unset
    /\ stdout = <<>>
    /\ call = Unset
    /\ returned = Unset

\* self.tool_dict
GetToolDict ==
    /\ call = Unset
    /\ call' = Call("tool_dict", <<>>)
    /\ returned' = Value(tool_dict(tools.items))
    /\ UNCHANGED <<agentVars, runVars, stdout>>

\* self.tool_names
GetToolNames ==
    /\ call = Unset
    /\ call' = Call("tool_names", <<>>)
    /\ returned' = Value(tool_names(tools.items))
    /\ UNCHANGED <<agentVars, runVars, stdout>>

\* self.run_tool(tool_name, tool_input); tool_calls records the tool that was called
\* and the input it was called with.
RunTool(tool_name, tool_input) ==
    /\ call = Unset
    /\ call' = Call("run_tool", <<tool_name, tool_input>>)
    /\ returned' = run_tool(tools.items, tool_name, tool_input)
    /\ tool_calls' =
            IF run_tool_invokes(tools.items, tool_name)
            THEN Append(tool_calls,
                        [tool |-> tool_dict(tools.items)[tool_name], input |-> tool_input])
            ELSE tool_calls
    /\ UNCHANGED <<agentVars, pc, question, prompt, response, action, tool_response,
                   llm_calls, responses, result, stdout>>

NextTool ==
    \/ GetToolDict
    \/ GetToolNames
    \/ \E tool_name \in RunToolNames, tool_input \in RunToolInputs :
            RunTool(tool_name, tool_input)

SpecTool == InitTool /\ [][NextTool]_vars

----------------------------------------------------------------------------
(* Agent(llm, tools, verbose) and assignments to its properties. *)

\* What a tool list given to the constructor can hold: Tools and one object that is
\* not a Tool.
ItemUniverse == {SearchTool, CalcTool, PyStr(N_Search)}

\* The values given as tools.
ToolsArgs ==
    {PyList(items) : items \in SeqsUpTo(ItemUniverse, MaxTools)}
        \cup {SearchTool, CalcTool, PyNone, PyStr(N_Search), PyTuple(<<SearchTool>>)}

\* The values given as verbose.
VerboseArgs == {PyBool(TRUE), PyBool(FALSE), PyInt("0"), PyInt("1"), PyNone, PyStr(N_Search)}

\* The values given as llm, which is any object.
LlmArgs == {"llm", "other_llm"}

InitCtor ==
    /\ llm = Unset
    /\ tools = Unset
    /\ verbose = Unset
    /\ constructed = FALSE
    /\ pc = "IDLE"
    /\ question = Unset
    /\ prompt = Unset
    /\ response = Unset
    /\ action = Unset
    /\ tool_response = Unset
    /\ llm_calls = <<>>
    /\ tool_calls = <<>>
    /\ responses = <<>>
    /\ result = Unset
    /\ stdout = <<>>
    /\ call = Unset
    /\ returned = Unset

\* Agent(l, t, v), once in a behaviour: __init__ assigns llm, tools and verbose in this
\* order through the setters, and the first setter that raises ends it with no Agent.
\* (BaseModel's __init__, which is called first, is taken to do nothing.)
AgentInit(l, t, v) ==
    /\ ~constructed
    /\ call = Unset
    /\ call' = Call("__init__", <<l, t, v>>)
    /\ llm' = l
    /\ LET ts == tools_setter(t)
           vs == verbose_setter(v)
       IN  IF ts.kind = "raise"
           THEN /\ returned' = ts
                /\ UNCHANGED <<tools, verbose, constructed>>
           ELSE /\ tools' = ts.value
                /\ IF vs.kind = "raise"
                   THEN /\ returned' = vs
                        /\ UNCHANGED <<verbose, constructed>>
                   ELSE /\ verbose' = vs.value
                        /\ constructed' = TRUE
                        /\ returned' = ReturnedNone
    /\ UNCHANGED <<runVars, stdout>>

\* agent.llm = value
SetLlm(value) ==
    /\ constructed
    /\ call' = Call("llm.setter", <<value>>)
    /\ llm' = value
    /\ returned' = ReturnedNone
    /\ UNCHANGED <<tools, verbose, constructed, runVars, stdout>>

\* agent.tools = value
SetTools(value) ==
    /\ constructed
    /\ call' = Call("tools.setter", <<value>>)
    /\ LET ts == tools_setter(value)
       IN  IF ts.kind = "raise"
           THEN /\ returned' = ts
                /\ UNCHANGED tools
           ELSE /\ tools' = ts.value
                /\ returned' = ReturnedNone
    /\ UNCHANGED <<llm, verbose, constructed, runVars, stdout>>

\* agent.verbose = value
SetVerbose(value) ==
    /\ constructed
    /\ call' = Call("verbose.setter", <<value>>)
    /\ LET vs == verbose_setter(value)
       IN  IF vs.kind = "raise"
           THEN /\ returned' = vs
                /\ UNCHANGED verbose
           ELSE /\ verbose' = vs.value
                /\ returned' = ReturnedNone
    /\ UNCHANGED <<llm, tools, constructed, runVars, stdout>>

NextCtor ==
    \/ \E l \in LlmArgs, t \in ToolsArgs, v \in VerboseArgs : AgentInit(l, t, v)
    \/ \E value \in LlmArgs : SetLlm(value)
    \/ \E value \in ToolsArgs : SetTools(value)
    \/ \E value \in VerboseArgs : SetVerbose(value)

SpecCtor == InitCtor /\ [][NextCtor]_vars

----------------------------------------------------------------------------
(* What the properties below are stated with.  None of it is used by the model    *)
(* above: a marker line is found here from the first colon of a line, not by the   *)
(* split that parse_output makes.                                                  *)

EndsWith(s, p) == Len(p) <= Len(s) /\ SubSeq(s, Len(s) - Len(p) + 1, Len(s)) = p

Contains(s, p) == \E i \in 1..(Len(s) - Len(p) + 1) : SubSeq(s, i, i + Len(p) - 1) = p

HasColon(line) == \E k \in 1..Len(line) : line[k] = ":"

\* The text of a line before its first colon (the whole line when it has none), trimmed.
BeforeColon(line) ==
    IF HasColon(line) THEN Strip(SubSeq(line, 1, FindAny(line, {":"}, 1) - 1)) ELSE Strip(line)

\* The text of a line after its first colon, trimmed.
AfterColon(line) == Strip(SubSeq(line, FindAny(line, {":"}, 1) + 1, Len(line)))

IsMarkerLine(line) ==
    HasColon(line) /\ BeforeColon(line) \in {MARKER_ACTION, MARKER_FINAL_ANSWER}

\* The index of the first marker line of lines, 0 when there is none.
FirstMarker(lines) ==
    LET marked == {k \in 1..Len(lines) : IsMarkerLine(lines[k])}
    IN  IF marked = {} THEN 0 ELSE Min(marked)

FirstMarkerIs(lines, marker) ==
    FirstMarker(lines) # 0 /\ BeforeColon(lines[FirstMarker(lines)]) = marker

\* The lines before line m, joined by newlines.
LinesBefore(lines, m) == Join(<<"\n">>, SubSeq(lines, 1, m - 1))

\* The index of the first line after line m + 1 that begins with 'Observation:', one
\* past the last line when there is none.
InputEnd(lines, m) ==
    LET stops == {k \in (m + 2)..Len(lines) : StartsWith(lines[k], OBSERVATION_COLON)}
    IN  IF stops = {} THEN Len(lines) + 1 ELSE Min(stops)

\* parse_output has been called directly and has returned or raised.
ParseOutputDone == call # Unset /\ call.method = "parse_output" /\ returned # Unset

ParseOutputArg == call.args[1]

ParseOutputLines == splitlines(ParseOutputArg)

----------------------------------------------------------------------------
(* parse_output: C5 to C8, under SpecParse. *)

\* C5: when the first marker line of the output is a 'Final Answer' line, parse_output
\* returns a final-answer record whose answer is everything after the first colon of
\* that line, trimmed, and whose thought is the lines before it joined by newlines.
C5_AnswerIsAllAfterFirstColon ==
    (ParseOutputDone /\ FirstMarkerIs(ParseOutputLines, MARKER_FINAL_ANSWER))
        => LET m == FirstMarker(ParseOutputLines)
           IN  returned = [kind |-> "dict",
                           Action |-> "answer",
                           Answer |-> AfterColon(ParseOutputLines[m]),
                           Thought |-> LinesBefore(ParseOutputLines, m)]

\* C6: when the first marker line is an 'Action' line followed by an 'Action Input'
\* line, parse_output returns a tool-call record: the tool is everything after the first
\* colon of the Action line, trimmed; the thought is the lines before the Action line;
\* the input is the whole text after the colon of the Action Input line, trimmed, then
\* each later line after a newline, up to the first line beginning with 'Observation:'.
C6_InputIsAllAfterColon ==
    (/\ ParseOutputDone
     /\ FirstMarkerIs(ParseOutputLines, MARKER_ACTION)
     /\ FirstMarker(ParseOutputLines) < Len(ParseOutputLines)
     /\ HasColon(ParseOutputLines[FirstMarker(ParseOutputLines) + 1])
     /\ BeforeColon(ParseOutputLines[FirstMarker(ParseOutputLines) + 1]) = MARKER_ACTION_INPUT)
        => LET m == FirstMarker(ParseOutputLines)
               first == AfterColon(ParseOutputLines[m + 1])
               rest == SubSeq(ParseOutputLines, m + 2, InputEnd(ParseOutputLines, m) - 1)
           IN  returned = [kind |-> "dict",
                           Action |-> "tool",
                           Tool |-> AfterColon(ParseOutputLines[m]),
                           Input |-> Join(<<"\n">>, <<first>> \o rest),
                           Thought |-> LinesBefore(ParseOutputLines, m)]

\* The line after the first marker line is missing or does not start with
\* 'Action Input'.
ActionInputMissing ==
    LET m == FirstMarker(ParseOutputLines)
    IN  \/ m = Len(ParseOutputLines)
        \/ BeforeColon(ParseOutputLines[m + 1]) # MARKER_ACTION_INPUT

\* C7: a missing 'Action Input' line is never fatal: when the first marker line is an
\* 'Action' line and the next line does not start with 'Action Input' (or holds no
\* colon, or there is no next line), parse_output raises nothing and returns a
\* tool-call record.
C7_MissingActionInputNotFatal ==
    (ParseOutputDone /\ FirstMarkerIs(ParseOutputLines, MARKER_ACTION) /\ ActionInputMissing)
        => (returned.kind = "dict" /\ returned.Action = "tool")

\* C8: parse_output returns the unparsed shape, the output followed by a newline and
\* the warning, exactly when no line of the output has 'Action' or 'Final Answer' as the
\* trimmed text before its first colon; an output with no colon is returned unparsed
\* with the output as a prefix.
C8_UnparsedIffNoMarker ==
    ParseOutputDone
        => /\ (returned.kind = "str") <=> (FirstMarker(ParseOutputLines) = 0)
           /\ returned.kind = "str" => returned.value = ParseOutputArg \o <<"\n">> \o WARNING
           /\ ~HasColon(ParseOutputArg)
                => (returned.kind = "str" /\ StartsWith(returned.value, ParseOutputArg))

\* An output of several lines, none with a colon, has been returned unparsed.
C8_Witness ==
    /\ ParseOutputDone
    /\ ~HasColon(ParseOutputArg)
    /\ Len(ParseOutputLines) > 1
    /\ returned.kind = "str"

----------------------------------------------------------------------------
(* run: C1 to C4, under Spec. *)

ToolNames == {tools.items[k].name : k \in 1..Len(tools.items)}

IsToolCall(r) == parse_output(r).kind = "dict" /\ parse_output(r).Action = "tool"

IsRegisteredToolCall(r) == IsToolCall(r) /\ parse_output(r).Tool \in ToolNames

IsFinalAnswer(r) == parse_output(r).kind = "dict" /\ parse_output(r).Action = "answer"

LastResponse == responses[Len(responses)]

\* The model has answered and run has gone through all it does with the last answer.
LastResponseHandled == responses # <<>> /\ pc \notin {"PARSING", "EXECUTING_TOOL"}

\* The responses that made run invoke a tool.
RegisteredToolCalls == {i \in 1..Len(responses) : IsRegisteredToolCall(responses[i])}

\* The prompt ends with the Observation that run_tool returned.
ObservationAppended == EndsWith(prompt, SEG_OBSERVATION \o tool_response \o <<"\n">>)

\* C1: when the first n responses of the model each parse as a tool-call that names a
\* registered tool and response n+1 parses as a final-answer, run returns the pair of
\* the parsed answer and the final prompt, which ends with 'Final Answer: <answer>'; the
\* model was called n+1 times and a tool invoked n times, once per tool-call response.
C1_RunReturnsAnswer ==
    (/\ responses # <<>>
     /\ pc # "PARSING"
     /\ \A i \in 1..(Len(responses) - 1) : IsRegisteredToolCall(responses[i])
     /\ IsFinalAnswer(LastResponse))
        => /\ pc = "DONE"
           /\ result = [kind |-> "return",
                        response |-> parse_output(LastResponse).Answer,
                        full_text |-> prompt]
           /\ EndsWith(result.full_text, Tail(SEG_FINAL) \o result.response)
           /\ Len(llm_calls) = Len(responses)
           /\ Len(tool_calls) = Len(responses) - 1
           /\ \A i \in 1..Len(tool_calls) :
                tool_calls[i] = [name |-> parse_output(responses[i]).Tool,
                                 input |-> parse_output(responses[i]).Input]

\* run has returned after two tool-call responses and a final answer.
C1_Witness ==
    /\ pc = "DONE"
    /\ Len(responses) = 3
    /\ Len(tool_calls) = 2
    /\ result.kind = "return"

\* C2: a tool-call that names no registered tool does not end the loop and invokes no
\* tool: run_tool returns 'No tool with the name <name> found', which is appended as
\* the Observation, and run is back at the call of the model.
C2_UnknownToolIsObserved ==
    (/\ LastResponseHandled
     /\ IsToolCall(LastResponse)
     /\ ~IsRegisteredToolCall(LastResponse))
        => /\ pc = "AWAITING_MODEL"
           /\ result = Unset
           /\ tool_response = NO_TOOL_HEAD \o parse_output(LastResponse).Tool \o NO_TOOL_TAIL
           /\ ObservationAppended
           /\ Len(tool_calls) = Cardinality(RegisteredToolCalls)

\* run is back at the call of the model after a tool-call that named no registered tool.
C2_Witness ==
    /\ pc = "AWAITING_MODEL"
    /\ responses # <<>>
    /\ LastResponse = R_ToolNope
    /\ tool_response = NO_TOOL_HEAD \o <<"N", "o", "p", "e">> \o NO_TOOL_TAIL
    /\ tool_calls = <<>>

\* The tool the last response names raises when it is invoked with the parsed input.
LastToolRaises ==
    LET a == parse_output(LastResponse)
    IN  invoke(tool_dict(tools.items)[a.Tool], a.Input).kind = "raise"

\* C3: a registered tool that raises does not end the loop: run_tool returns 'Tool
\* encountered an error: ' followed by the exception's message, which is appended as the
\* Observation, and run is back at the call of the model.
C3_ToolErrorIsObserved ==
    (/\ LastResponseHandled
     /\ IsRegisteredToolCall(LastResponse)
     /\ LastToolRaises)
        => /\ pc = "AWAITING_MODEL"
           /\ result = Unset
           /\ LET a == parse_output(LastResponse)
              IN  tool_response
                    = TOOL_ERROR \o invoke(tool_dict(tools.items)[a.Tool], a.Input).msg
           /\ ObservationAppended

\* run is back at the call of the model after the tool it invoked has raised.
C3_Witness ==
    /\ pc = "AWAITING_MODEL"
    /\ responses # <<>>
    /\ LastResponse = R_ToolCalc
    /\ tool_calls # <<>>
    /\ tool_calls[Len(tool_calls)].name = N_Calc
    /\ tool_response = TOOL_ERROR \o M_Boom

\* The last response holds no marker line, so that parse_output returns it unparsed.
LastResponseUnparsed ==
    /\ responses # <<>>
    /\ pc # "PARSING"
    /\ FirstMarker(splitlines(LastResponse)) = 0

\* What holds of a run that an unparsed response has ended, whatever it raised: run has
\* raised and returned no pair, no tool ran for that response, the model is not called
\* again, and the prompt is the one that response was asked with.
AbortedByUnparsed ==
    /\ pc = "RAISED"
    /\ result.kind = "raise"
    /\ Len(tool_calls) = Cardinality(RegisteredToolCalls)
    /\ Len(llm_calls) = Len(responses)
    /\ ~ENABLED Next
    /\ prompt = llm_calls[Len(llm_calls)]

\* Python's LookupError and its subclasses.
LookupErrors == {"LookupError", "KeyError", "IndexError"}

\* C4, as claimed: a response with no recognized marker makes run abort with a lookup
\* error at the read of action['Action'].
C4_AbortsWithLookupError ==
    LastResponseUnparsed => (AbortedByUnparsed /\ result.exc \in LookupErrors)

\* C4, amended: a response with no recognized marker makes run abort with a TypeError
\* at the read of action['Action'] (the unparsed value is a str, and a str indexed by a
\* str raises TypeError): run returns no pair, runs no tool for that response, calls the
\* model no more and leaves the prompt as it was before that response.
C4_AbortsWithTypeError ==
    LastResponseUnparsed
        => (AbortedByUnparsed /\ result = Raise("TypeError") /\ action.kind = "str")

\* run has raised on an unparsed second response.
C4_Witness ==
    /\ pc = "RAISED"
    /\ Len(responses) = 2
    /\ LastResponse = R_Plain
    /\ result = Raise("TypeError")

----------------------------------------------------------------------------
(* The constructor and the setters: C9, under SpecCtor. *)

\* A single Tool, or a list whose elements are all Tools.
IsToolOrListOfTools(value) ==
    \/ value.cls = "Tool"
    \/ value.cls = "list" /\ \A k \in 1..Len(value.items) : value.items[k].cls = "Tool"

\* What the Agent holds as tools after it has taken value.
AsToolList(value) == IF value.cls = "Tool" THEN PyList(<<value>>) ELSE value

IsBool(value) == value.cls = "bool"

CalledWith(method) == call # Unset /\ call.method = method

\* C9: constructing an Agent, or assigning to tools or verbose, raises TypeError
\* whenever verbose is not a bool and whenever tools is neither a Tool nor a list of
\* Tools; otherwise it succeeds, a single Tool being stored as a list of one element.
C9_TypeErrorOnBadArguments ==
    /\ CalledWith("__init__")
         => IF IsToolOrListOfTools(call.args[2]) /\ IsBool(call.args[3])
            THEN /\ returned = ReturnedNone
                 /\ constructed
                 /\ llm = call.args[1]
                 /\ tools = AsToolList(call.args[2])
                 /\ verbose = call.args[3]
            ELSE returned = Raise("TypeError") /\ ~constructed
    /\ CalledWith("tools.setter")
         => IF IsToolOrListOfTools(call.args[1])
            THEN returned = ReturnedNone /\ tools = AsToolList(call.args[1])
            ELSE returned = Raise("TypeError")
    /\ CalledWith("verbose.setter")
         => IF IsBool(call.args[1])
            THEN returned = ReturnedNone /\ verbose = call.args[1]
            ELSE returned = Raise("TypeError")
    /\ constructed => (IsToolOrListOfTools(tools) /\ tools.cls = "list" /\ IsBool(verbose))

\* The constructor has raised TypeError for a list that holds a Tool and a str.
C9_Witness ==
    /\ CalledWith("__init__")
    /\ call.args[2] = PyList(<<SearchTool, PyStr(N_Search)>>)
    /\ call.args[3] = PyBool(TRUE)
    /\ returned = Raise("TypeError")
    /\ ~constructed

----------------------------------------------------------------------------
(* create_prompt: C10, under SpecPrompt. *)

CreatePromptDone == CalledWith("create_prompt") /\ returned # Unset

\* The 'name: description' entries in registration order, joined by blank lines.
ToolEntries ==
    Join(<<"\n", "\n">>,
         [k \in 1..Len(tools.items) |->
            tools.items[k].name \o <<":", " ">> \o tools.items[k].description])

\* The instructions block up to its tool_names field.
InstructionsHead == SubSeq(INSTRUCTIONS, 1, FindAny(INSTRUCTIONS, {"{"}, 1) - 1)

\* C10: for every question and every tool list, create_prompt returns a string that
\* holds the literal question and every tool's name and description, the
\* 'name: description' entries standing in registration order between the preamble and
\* the instructions block.
C10_PromptHoldsQuestionAndTools ==
    CreatePromptDone
        => /\ returned.kind = "str"
           /\ Contains(returned.value, call.args[1])
           /\ \A k \in 1..Len(tools.items) :
                /\ Contains(returned.value, tools.items[k].name)
                /\ Contains(returned.value, tools.items[k].description)
           /\ StartsWith(returned.value,
                         PREFIX \o <<"\n", "\n">> \o ToolEntries \o <<"\n", "\n">>
                             \o InstructionsHead)

----------------------------------------------------------------------------
(* C11: the tool registry. *)

\* The tools of the list have pairwise distinct names.
DistinctNames(ts) == \A j, k \in 1..Len(ts) : ts[j].name = ts[k].name => j = k

\* The positions of the list whose tool has the name.
Registered(ts, n) == {k \in 1..Len(ts) : ts[k].name = n}

\* C11: for a tool list with pairwise distinct names, tool_dict has exactly one entry
\* for each tool, the tool's name mapped to that tool, tool_names is the names in the
\* order of the list, and run_tool called with the name of a tool of the list calls
\* that tool, once, with the input given, and no other.
C11_RegistryFollowsToolList ==
    DistinctNames(tools.items) =>
        /\ CalledWith("tool_dict") =>
                /\ Cardinality(DOMAIN returned.value) = Len(tools.items)
                /\ \A k \in 1..Len(tools.items) :
                        /\ tools.items[k].name \in DOMAIN returned.value
                        /\ returned.value[tools.items[k].name] = tools.items[k]
        /\ CalledWith("tool_names") =>
                /\ Len(returned.value) = Len(tools.items)
                /\ \A k \in 1..Len(tools.items) : returned.value[k] = tools.items[k].name
        /\ CalledWith("run_tool") =>
                \A k \in Registered(tools.items, call.args[1]) :
                    tool_calls = <<[tool |-> tools.items[k], input |-> call.args[2]]>>

\* run_tool was called with the name of the second tool of a list of two tools with
\* different names, and a tool was called.
C11_Witness ==
    /\ Len(tools.items) = 2
    /\ DistinctNames(tools.items)
    /\ CalledWith("run_tool")
    /\ call.args[1] = tools.items[2].name
    /\ Len(tool_calls) = 1

----------------------------------------------------------------------------
(* C12: the states of run. *)

\* The states of the state machine of run.
MachineStates == {"BUILDING_PROMPT", "AWAITING_MODEL", "PARSING", "EXECUTING_TOOL", "DONE"}

\* The transitions of the state machine of run.
MachineTransitions ==
    {<<"BUILDING_PROMPT", "AWAITING_MODEL">>, <<"AWAITING_MODEL", "PARSING">>,
     <<"PARSING", "EXECUTING_TOOL">>, <<"PARSING", "DONE">>,
     <<"EXECUTING_TOOL", "AWAITING_MODEL">>}

\* run is over: it returned or it raised.
RunStopped == result # Unset

\* C12: a run is in a state of the machine BUILDING_PROMPT -> AWAITING_MODEL -> PARSING
\* -> (EXECUTING_TOOL -> AWAITING_MODEL | DONE): the model is called with the prompt
\* that was built, a tool is executed only for a response parsed as a tool-call, after a
\* tool execution the model is called, and a run that is over is DONE.
C12_RunFollowsStateMachine ==
    /\ pc \in {"IDLE"} \cup MachineStates
    /\ pc \in {"AWAITING_MODEL", "PARSING", "EXECUTING_TOOL", "DONE"} => prompt # Unset
    /\ pc = "EXECUTING_TOOL" => IsToolCall(LastResponse)
    /\ pc = "AWAITING_MODEL" /\ responses # <<>> => IsToolCall(LastResponse)
    /\ RunStopped => pc = "DONE"

\* The steps of run that do not raise follow the transitions of the machine.
StepsFollowMachine ==
    [][pc' # pc /\ pc # "IDLE" /\ pc' # "RAISED" => <<pc, pc'>> \in MachineTransitions]_vars

----------------------------------------------------------------------------
(* C13: the end of run. *)

\* The response parses as a final-answer: its first marker line is a Final Answer line.
ParsesAsFinalAnswer(r) == FirstMarkerIs(splitlines(r), MARKER_FINAL_ANSWER)

\* The response parses as a tool-call: its first marker line is an Action line and the
\* line after it holds a colon.
ParsesAsToolCall(r) ==
    LET lines == splitlines(r)
        m == FirstMarker(lines)
    IN  /\ FirstMarkerIs(lines, MARKER_ACTION)
        /\ m < Len(lines)
        /\ HasColon(lines[m + 1])

\* The model has answered and each of its responses parses as a tool-call.
OnlyToolCalls ==
    responses # <<>> /\ \A k \in 1..Len(responses) : ParsesAsToolCall(responses[k])

\* C13: run returns only in the iteration whose response parses as a final-answer. A
\* response that parses as a final-answer after responses that parse as tool-calls is
\* parsed in the next step of run, which ends it DONE. While every response parses as a
\* tool-call run has not stopped: the tool is executed in the next step and the step
\* after it is back at the model call, there is one model call for each response, and
\* the next model call is not held back by any count of iterations (only by the bound
\* of the model).
C13_ReturnsOnlyOnFinalAnswer ==
    /\ [](pc = "DONE" =>
            /\ ParsesAsFinalAnswer(LastResponse)
            /\ \A k \in 1..(Len(responses) - 1) : ParsesAsToolCall(responses[k]))
    /\ [](OnlyToolCalls =>
            /\ ~RunStopped
            /\ pc \in {"PARSING", "EXECUTING_TOOL", "AWAITING_MODEL"}
            /\ Len(llm_calls) = Len(responses)
            /\ pc = "EXECUTING_TOOL" => ENABLED ExecuteTool
            /\ pc = "AWAITING_MODEL" /\ Len(llm_calls) < MaxCalls =>
                    ENABLED (\E r \in Responses : ModelReturns(r)))
    /\ [][pc = "PARSING" /\ ParsesAsFinalAnswer(response) => pc' = "DONE"]_vars
    /\ [][pc = "PARSING" /\ ParsesAsToolCall(response) => pc' = "EXECUTING_TOOL"]_vars
    /\ [][pc = "EXECUTING_TOOL" /\ OnlyToolCalls => pc' = "AWAITING_MODEL"]_vars

\* run is DONE after two tool-calls and a final answer.
C13_Witness ==
    /\ pc = "DONE"
    /\ Len(responses) = 3
    /\ ParsesAsToolCall(responses[1])
    /\ ParsesAsToolCall(responses[2])
    /\ ParsesAsFinalAnswer(responses[3])

----------------------------------------------------------------------------
(* C14: the segment of a tool-call iteration. *)

\* A tool-call iteration has just ended: the tool branch was taken for the last
\* response and run is back at the model call.
ToolIterationEnded ==
    /\ pc = "AWAITING_MODEL"
    /\ responses # <<>>
    /\ ParsesAsToolCall(LastResponse)

\* What run_tool returns for the parsed record of the last response.
LastToolResponse == run_tool(tools.items, action.Tool, action.Input).value

\* The Observation of the last iteration: the tool response, or the placeholder for an
\* empty one.
LastObservation == IF LastToolResponse = <<>> THEN NO_RESULTS ELSE LastToolResponse

\* C14: a tool-call iteration appends to the prompt it sent exactly
\* '{thought}\nAction: {tool}\nAction Input: {input}\nObservation: {tool_response}\n',
\* with the fields of the parsed record of the response and with what run_tool returned,
\* an empty string replaced by 'Tool returned no results'; the Observation appended is
\* never empty.
C14_ToolSegmentAppended ==
    ToolIterationEnded =>
        /\ action = parse_output(LastResponse)
        /\ prompt = llm_calls[Len(llm_calls)] \o action.Thought
                        \o <<"\n">> \o MARKER_ACTION \o <<":", " ">> \o action.Tool
                        \o <<"\n">> \o MARKER_ACTION_INPUT \o <<":", " ">> \o action.Input
                        \o <<"\n">> \o OBSERVATION_COLON \o <<" ">> \o LastObservation
                        \o <<"\n">>
        /\ tool_response = LastObservation
        /\ tool_response # <<>>

\* A tool that returns the empty string was called and the placeholder was appended.
C14_Witness ==
    /\ ToolIterationEnded
    /\ tool_calls # <<>>
    /\ LastToolResponse = <<>>
    /\ tool_response = NO_RESULTS
    /\ EndsWith(prompt, OBSERVATION_COLON \o <<" ">> \o NO_RESULTS \o <<"\n">>)

----------------------------------------------------------------------------
(* C15: the prompt grows by appending. *)

IsPrefix(p, s) == Len(p) <= Len(s) /\ SubSeq(s, 1, Len(p)) = p

IsStrictPrefix(p, s) == Len(p) < Len(s) /\ IsPrefix(p, s)

\* C15: the first prompt sent to the model is create_prompt(question), each later
\* prompt sent has the prompt of the call before it as a strict prefix, the prompt run
\* holds has every prompt sent as a prefix, and so has the full_text run returns. A step
\* of run changes the prompt only by appending to it.
C15_PromptOnlyGrows ==
    /\ [](llm_calls # <<>> => Str(llm_calls[1]) = create_prompt(tools.items, question))
    /\ [](\A k \in 1..(Len(llm_calls) - 1) : IsStrictPrefix(llm_calls[k], llm_calls[k + 1]))
    /\ [](\A k \in 1..Len(llm_calls) : IsPrefix(llm_calls[k], prompt))
    /\ [](pc = "DONE" =>
            /\ result.full_text = prompt
            /\ \A k \in 1..Len(llm_calls) : IsPrefix(llm_calls[k], result.full_text))
    /\ [][pc \notin {"IDLE", "BUILDING_PROMPT"} => IsPrefix(prompt, prompt')]_vars
    /\ [][pc = "AWAITING_MODEL" /\ pc' = "PARSING" =>
            llm_calls' = Append(llm_calls, prompt) /\ prompt' = prompt]_vars

\* run returned after three model calls, each with a longer prompt.
C15_Witness ==
    /\ pc = "DONE"
    /\ Len(llm_calls) = 3
    /\ IsStrictPrefix(llm_calls[1], llm_calls[2])
    /\ IsStrictPrefix(llm_calls[2], llm_calls[3])
    /\ IsStrictPrefix(llm_calls[3], result.full_text)

----------------------------------------------------------------------------
(* C16: the first marker line decides. *)

\* The indexes of the lines whose trimmed text before the first colon is the marker.
MarkerLines(lines, marker) ==
    {k \in 1..Len(lines) : HasColon(lines[k]) /\ BeforeColon(lines[k]) = marker}

\* An Action line comes before every Final Answer line.
ActionLineFirst(lines) ==
    /\ MarkerLines(lines, MARKER_ACTION) # {}
    /\ \A f \in MarkerLines(lines, MARKER_FINAL_ANSWER) :
            Min(MarkerLines(lines, MARKER_ACTION)) < f

\* A Final Answer line comes before every Action line.
FinalAnswerLineFirst(lines) ==
    /\ MarkerLines(lines, MARKER_FINAL_ANSWER) # {}
    /\ \A a \in MarkerLines(lines, MARKER_ACTION) :
            Min(MarkerLines(lines, MARKER_FINAL_ANSWER)) < a

\* C16: parse_output returns the record of the first line whose trimmed text before its
\* first colon is 'Action' or 'Final Answer': a tool-call when an Action line comes
\* first, a final-answer when a Final Answer line comes first; the lines before that
\* line, with or without a colon, are the thought.
C16_FirstMarkerDecides ==
    ParseOutputDone =>
        /\ ActionLineFirst(ParseOutputLines) =>
                /\ returned.kind = "dict"
                /\ returned.Action = "tool"
                /\ returned.Thought =
                        LinesBefore(ParseOutputLines, FirstMarker(ParseOutputLines))
        /\ FinalAnswerLineFirst(ParseOutputLines) =>
                /\ returned.kind = "dict"
                /\ returned.Action = "answer"
                /\ returned.Thought =
                        LinesBefore(ParseOutputLines, FirstMarker(ParseOutputLines))

\* The claim for the outputs whose Action line has a line with a colon after it.
C16_FirstMarkerDecidesIfInputLine ==
    ParseOutputDone =>
        /\ ActionLineFirst(ParseOutputLines) /\ ParsesAsToolCall(ParseOutputArg) =>
                /\ returned.kind = "dict"
                /\ returned.Action = "tool"
                /\ returned.Thought =
                        LinesBefore(ParseOutputLines, FirstMarker(ParseOutputLines))
        /\ FinalAnswerLineFirst(ParseOutputLines) =>
                /\ returned.kind = "dict"
                /\ returned.Action = "answer"
                /\ returned.Thought =
                        LinesBefore(ParseOutputLines, FirstMarker(ParseOutputLines))

----------------------------------------------------------------------------
(* C17: verbose changes nothing but what is printed. *)

\* The first of two runs is over and the second one has begun.
InSecondRun == returned # Unset /\ pc # "IDLE"

\* The second of two runs is over.
SecondRunOver == returned # Unset /\ pc \in {"DONE", "RAISED"}

\* C17: of two runs of the same Agent with the same question and the same model, the
\* first with one value of verbose and the second with the other, the second sends the
\* model the prompts the first sent, gets the same responses, calls the same tools with
\* the same inputs and ends as the first did: in the same state, with the same prompt
\* and the same result (the same pair returned, or the same error raised).
C17_VerboseChangesNoOutcome ==
    InSecondRun /\ verbose # returned.verbose =>
        /\ IsPrefix(llm_calls, returned.llm_calls)
        /\ IsPrefix(responses, returned.responses)
        /\ IsPrefix(tool_calls, returned.tool_calls)
        /\ SecondRunOver =>
                /\ llm_calls = returned.llm_calls
                /\ responses = returned.responses
                /\ tool_calls = returned.tool_calls
                /\ pc = returned.stopped_in
                /\ prompt = returned.prompt
                /\ result = returned.result

\* A run that called a tool twice and returned an answer was made again with the other
\* value of verbose, and one of the two runs printed and the other did not.
C17_Witness ==
    /\ SecondRunOver
    /\ verbose # returned.verbose
    /\ pc = "DONE"
    /\ Len(tool_calls) = 2
    /\ stdout # <<>>

----------------------------------------------------------------------------
(* C18: run keeps nothing on the Agent. *)

\* C18: no step of run changes the llm, tools and verbose of the Agent. A second run
\* with the question of the first starts from the prompt the first started from,
\* create_prompt(question), and ends as the first did: it returns the same
\* {response, full_text}, or raises the same error.
C18_RunKeepsNothing ==
    /\ [][pc # "IDLE" => UNCHANGED <<llm, tools, verbose>>]_vars
    /\ [](InSecondRun /\ llm_calls # <<>> =>
            /\ llm_calls[1] = returned.llm_calls[1]
            /\ Str(llm_calls[1]) = create_prompt(tools.items, question))
    /\ [](SecondRunOver =>
            /\ question = returned.question
            /\ result = returned.result
            /\ pc = returned.stopped_in)

\* A run that returned after a tool call was made again and returned.
C18_Witness ==
    /\ SecondRunOver
    /\ pc = "DONE"
    /\ Len(llm_calls) = 2
    /\ result.kind = "return"
    /\ result = returned.result

----------------------------------------------------------------------------
(* C19: Observation lines written by the model. *)

\* The index of the first line at or after line from that begins with 'Observation:',
\* one past the last line when there is none.
ObservationStop(lines, from) ==
    LET stops == {k \in from..Len(lines) : StartsWith(lines[k], OBSERVATION_COLON)}
    IN  IF stops = {} THEN Len(lines) + 1 ELSE Min(stops)

\* The tool input read from the lines after the Action line m and before line stop: the
\* text between the first two colons of line m + 1, trimmed, and the lines after it.
InputBetween(lines, m, stop) ==
    IF stop <= m + 1 THEN <<>>
    ELSE Join(<<"\n">>, <<Strip(Split(lines[m + 1], ":")[2])>> \o SubSeq(lines, m + 2, stop - 1))

\* The tool iteration that just ended passed the input to the tool, if it called one,
\* and appended it to the prompt with the Observation run_tool returned.
InputPassedAndAppended(tool_input) ==
    LET lines == splitlines(LastResponse)
        m == FirstMarker(lines)
    IN  /\ action.Input = tool_input
        /\ run_tool_invokes(tools.items, action.Tool) =>
                /\ tool_calls # <<>>
                /\ tool_calls[Len(tool_calls)].input = tool_input
        /\ prompt = llm_calls[Len(llm_calls)] \o LinesBefore(lines, m)
                        \o <<"\n">> \o MARKER_ACTION \o <<":", " ">> \o action.Tool
                        \o <<"\n">> \o MARKER_ACTION_INPUT \o <<":", " ">> \o tool_input
                        \o <<"\n">> \o OBSERVATION_COLON \o <<" ">> \o LastObservation
                        \o <<"\n">>

\* C19 as claimed: of a tool-call response nothing at or after the first line beginning
\* with 'Observation:' that follows the Action line is passed to the tool or copied into
\* the prompt, and the one line beginning with 'Observation:' that the iteration appends
\* is the one holding what run_tool returned.
C19_NoModelObservationCopied ==
    ToolIterationEnded =>
        LET lines == splitlines(LastResponse)
            m == FirstMarker(lines)
        IN  /\ InputPassedAndAppended(InputBetween(lines, m, ObservationStop(lines, m + 1)))
            /\ \A k \in 1..(m - 1) : ~StartsWith(lines[k], OBSERVATION_COLON)

\* C19 amended: the line after the Action line is read as the input line whatever it
\* begins with; nothing at or after the first line beginning with 'Observation:' that
\* comes after that input line is passed to the tool or copied into the prompt. The
\* lines before the Action line are copied as the thought, 'Observation:' lines among
\* them included, and the Observation field appended is what run_tool returned.
C19_NoTextAfterObservationStopCopied ==
    ToolIterationEnded =>
        LET lines == splitlines(LastResponse)
            m == FirstMarker(lines)
        IN  InputPassedAndAppended(InputBetween(lines, m, ObservationStop(lines, m + 2)))

\* A tool was called for a response with an 'Observation:' line after its input lines,
\* and its input ended before that line.
C19_Witness ==
    /\ ToolIterationEnded
    /\ LastResponse = R_ToolCalc
    /\ ObservationStop(splitlines(LastResponse), FirstMarker(splitlines(LastResponse)) + 2)
            = Len(splitlines(LastResponse))
    /\ tool_calls # <<>>
    /\ tool_calls[Len(tool_calls)].input = <<"1", "\n">> \o L_Plain

----------------------------------------------------------------------------
(* C20: parsing a segment that run appends. *)

\* Tool responses: a string, the empty string, the placeholder, and strings that hold
\* line breaks and marker lines.
ToolResponses ==
    {V_Fixed, <<>>, NO_RESULTS, L_Observation, R_ToolSearch, R_Final,
     <<"\n">> \o L_Action, <<"a", "\r">> \o L_FinalColon}

\* '{thought}\nFinal Answer: {answer}', spelled out.
AnswerText(thought, answer) ==
    thought \o <<"\n">> \o MARKER_FINAL_ANSWER \o <<":", " ">> \o answer

\* '{thought}\nAction: {tool}\nAction Input: {input}\nObservation: {tool_response}\n',
\* spelled out.
ToolText(thought, tool, tool_input, observation) ==
    thought \o <<"\n">> \o MARKER_ACTION \o <<":", " ">> \o tool
        \o <<"\n">> \o MARKER_ACTION_INPUT \o <<":", " ">> \o tool_input
        \o <<"\n">> \o OBSERVATION_COLON \o <<" ">> \o observation \o <<"\n">>

\* C20: parse_output of the segment run appends for a tool-call record that parse_output
\* returned, with any tool response, is a tool-call record with the same thought, tool
\* and input; parse_output of '{thought}\nFinal Answer: {answer}' of a final-answer
\* record that parse_output returned is a final-answer record with the same thought and
\* answer.
C20_SegmentParsesBack ==
    ParseOutputDone /\ returned.kind = "dict" =>
        /\ returned.Action = "tool" =>
                \A observation \in ToolResponses :
                    /\ tool_segment(returned, observation)
                        = ToolText(returned.Thought, returned.Tool, returned.Input, observation)
                    /\ parse_output(tool_segment(returned, observation)) = returned
        /\ returned.Action = "answer" =>
                /\ answer_segment(returned) = AnswerText(returned.Thought, returned.Answer)
                /\ parse_output(answer_segment(returned)) = returned

\* parse_output returned a tool-call record with a thought and an input, and the segment
\* for it with a tool response that holds a Final Answer line parses back to it.
C20_Witness ==
    /\ ParseOutputDone
    /\ returned.kind = "dict"
    /\ returned.Action = "tool"
    /\ returned.Thought # <<>>
    /\ returned.Input # <<>>
    /\ parse_output(tool_segment(returned, R_Final)) = returned

====
